---------------------------- MODULE Spec2Model ----------------------------
(***************************************************************************)
(* DataDiver (src/datadiver.py): the crawl engine crawl_site, the page     *)
(* fetcher fetch_page, the URL helpers normalize_url, get_domain,          *)
(* sanitize_url, is_valid_link, and the exit decision of the crawl         *)
(* command.  URLs are strings; the helpers are computed character by       *)
(* character as the Python code computes them.                             *)
(***************************************************************************)
EXTENDS Integers, Sequences, FiniteSets, TLC

(***************************************************************************)
(* Bounds of the model.                                                    *)
(***************************************************************************)
\* largest page budget (--max) tried besides the scenario budget of 10
MaxBudget == 2
\* largest --concurrency tried
MaxConcurrency == 2
\* largest number of anchors on one served page
MaxAnchors == 2
\* longest string given to normalize_url on its own
MaxUrlLen == 3

(***************************************************************************)
(* String helpers: Python's str methods on the strings of the model.       *)
(***************************************************************************)
CharAt(s, i) == SubSeq(s, i, i)

\* str.lower() on one character (ASCII letters)
LowerChar(c) ==
    CASE c = "A" -> "a" [] c = "B" -> "b" [] c = "C" -> "c" [] c = "D" -> "d"
      [] c = "E" -> "e" [] c = "F" -> "f" [] c = "G" -> "g" [] c = "H" -> "h"
      [] c = "I" -> "i" [] c = "J" -> "j" [] c = "K" -> "k" [] c = "L" -> "l"
      [] c = "M" -> "m" [] c = "N" -> "n" [] c = "O" -> "o" [] c = "P" -> "p"
      [] c = "Q" -> "q" [] c = "R" -> "r" [] c = "S" -> "s" [] c = "T" -> "t"
      [] c = "U" -> "u" [] c = "V" -> "v" [] c = "W" -> "w" [] c = "X" -> "x"
      [] c = "Y" -> "y" [] c = "Z" -> "z" [] OTHER -> c

RECURSIVE Lower(_)
\* str.lower()
Lower(s) ==
    IF s = "" THEN "" ELSE LowerChar(CharAt(s, 1)) \o Lower(SubSeq(s, 2, Len(s)))

\* str.rstrip("/") removing one trailing "/" only
RStripSlash_Once(s) ==
    IF s # "" /\ CharAt(s, Len(s)) = "/"
    THEN SubSeq(s, 1, Len(s) - 1)
    ELSE s

RECURSIVE RStripSlash(_)
\* str.rstrip("/"): every trailing "/" is removed
RStripSlash(s) ==
    IF s # "" /\ CharAt(s, Len(s)) = "/"
    THEN RStripSlash(SubSeq(s, 1, Len(s) - 1))
    ELSE s

\* sub in s
Contains(s, sub) ==
    \E i \in 1..(Len(s) - Len(sub) + 1) : SubSeq(s, i, i + Len(sub) - 1) = sub

\* s.startswith(prefix)
StartsWith(s, prefix) ==
    Len(s) >= Len(prefix) /\ SubSeq(s, 1, Len(prefix)) = prefix

\* index of the first character of s, at or after position from, that is in
\* chars; Len(s) + 1 when there is none
FirstOf(s, chars, from) ==
    LET hits == {i \in from..Len(s) : CharAt(s, i) \in chars}
    IN  IF hits = {} THEN Len(s) + 1
        ELSE CHOOSE i \in hits : \A j \in hits : i <= j

(***************************************************************************)
(* Module constants of datadiver.py.                                       *)
(***************************************************************************)
EXCLUDED_EXTENSIONS ==
    { "png", "jpg", "jpeg", "gif", "webp", "svg", "ico", "bmp",
      "pdf", "doc", "docx", "xls", "xlsx", "ppt", "pptx",
      "zip", "rar", "7z", "tar", "gz",
      "mp3", "mp4", "avi", "mov", "wmv", "flv",
      "css", "js", "woff", "woff2", "ttf", "eot" }

EXCLUDED_PATHS ==
    { "cart", "checkout", "search", "login", "logout", "register",
      "terms-of-service", "privacy-policy", "wp-admin", "wp-login",
      "feed", "xmlrpc", "wp-json", "api" }

\* the alternatives of the regular expression, each a literal; the pattern
\* is compiled with re.IGNORECASE
PAGINATION_PATTERNS ==
    { "?page=", "?p=", "?pg=", "?pagenumber=", "?start=", "?offset=",
      "/page/", "/p/", "/pages/", "#page=" }

(***************************************************************************)
(* URL helpers.                                                            *)
(***************************************************************************)
\* normalize_url without lower()
normalize_url_NoLower(url) == RStripSlash(url)

\* normalize_url: url.lower().rstrip("/")
normalize_url(url) == RStripSlash(Lower(url))

SchemeChars ==
    { "a", "b", "c", "d", "e", "f", "g", "h", "i", "j", "k", "l", "m",
      "n", "o", "p", "q", "r", "s", "t", "u", "v", "w", "x", "y", "z",
      "A", "B", "C", "D", "E", "F", "G", "H", "I", "J", "K", "L", "M",
      "N", "O", "P", "Q", "R", "S", "T", "U", "V", "W", "X", "Y", "Z",
      "0", "1", "2", "3", "4", "5", "6", "7", "8", "9", "+", "-", "." }

Digits == { "0", "1", "2", "3", "4", "5", "6", "7", "8", "9" }

\* urllib.parse.urlparse, the two components get_domain reads: the scheme
\* is the text before the first ":" when it is a valid scheme name (and is
\* lowercased); the netloc is what follows "//" up to the next "/", "?" or
\* "#"
urlparse(url) ==
    LET colon     == FirstOf(url, {":"}, 1)
        candidate == SubSeq(url, 1, colon - 1)
        hasScheme == /\ colon <= Len(url)
                     /\ colon > 1
                     /\ CharAt(url, 1) \in SchemeChars \ (Digits \cup {"+", "-", "."})
                     /\ \A i \in 1..(colon - 1) : CharAt(url, i) \in SchemeChars
        scheme    == IF hasScheme THEN Lower(candidate) ELSE ""
        rest      == IF hasScheme THEN SubSeq(url, colon + 1, Len(url)) ELSE url
        hasNetloc == StartsWith(rest, "//")
        stop      == FirstOf(rest, {"/", "?", "#"}, 3)
        netloc    == IF hasNetloc THEN SubSeq(rest, 3, stop - 1) ELSE ""
    IN  [scheme |-> scheme, netloc |-> netloc]

\* get_domain: f"{parsed.scheme}://{parsed.netloc}"
get_domain(url) ==
    LET parsed == urlparse(url)
    IN  parsed.scheme \o "://" \o parsed.netloc

\* sanitize_url: re.match(r"https?://", url, re.IGNORECASE), else prepend
\* "https://"; then normalize
sanitize_url(url) ==
    IF StartsWith(Lower(url), "http://") \/ StartsWith(Lower(url), "https://")
    THEN normalize_url(url)
    ELSE normalize_url("https://" \o url)

\* is_valid_link without the test of line 109
is_valid_link_AnyDomain(link, dom) ==
    LET link_lower == Lower(link)
    IN  /\ ~(Contains(link, "#") \/ Contains(link, "?"))
        /\ ~(\E pat \in PAGINATION_PATTERNS : Contains(link_lower, pat))
        /\ ~(\E ext \in EXCLUDED_EXTENSIONS : Contains(link_lower, "." \o ext))
        /\ ~(\E path \in EXCLUDED_PATHS : Contains(link_lower, path))

\* is_valid_link without the test of line 119
is_valid_link_AnyPath(link, dom) ==
    LET link_lower == Lower(link)
    IN  /\ get_domain(link) = dom
        /\ ~(Contains(link, "#") \/ Contains(link, "?"))
        /\ ~(\E pat \in PAGINATION_PATTERNS : Contains(link_lower, pat))
        /\ ~(\E ext \in EXCLUDED_EXTENSIONS : Contains(link_lower, "." \o ext))

\* is_valid_link
is_valid_link(link, dom) ==
    LET link_lower == Lower(link)
    IN  /\ get_domain(link) = dom
        /\ ~(Contains(link, "#") \/ Contains(link, "?"))
        /\ ~(\E pat \in PAGINATION_PATTERNS : Contains(link_lower, pat))
        /\ ~(\E ext \in EXCLUDED_EXTENSIONS : Contains(link_lower, "." \o ext))
        /\ ~(\E path \in EXCLUDED_PATHS : Contains(link_lower, path))

(***************************************************************************)
(* The environment: what the site can be asked for and what it serves.     *)
(***************************************************************************)
\* the command's url argument
SeedInputs == { "HTTP://S.io/", "s.io" }

\* the absolute URLs urljoin(url, anchor["href"]) yields for the anchors of
\* the served pages
Hrefs ==
    { "http://s.io/", "http://s.io/B", "http://s.io/c",
      "http://s.io/i.jpg", "http://s.io/cart", "http://t.io/b" }

\* the anchors of one served document, in document order
AnchorLists == UNION { [1..n -> Hrefs] : n \in 0..MaxAnchors }

\* what client.get can come to: an httpx.HTTPError, a response whose
\* content type is not text/html, or an HTML document with its anchors
Served ==
    { [kind |-> "error", anchors |-> <<>>], [kind |-> "other", anchors |-> <<>>] }
    \cup { [kind |-> "html", anchors |-> a] : a \in AnchorLists }

\* a second site: four pages besides the seed, a seed page that links to
\* two or to all four of them, and pages that link to one further page
WideHrefs ==
    { "http://s.io/b", "http://s.io/c", "http://s.io/d", "http://s.io/e" }

WideAnchorLists ==
    { <<>>,
      << "http://s.io/b", "http://s.io/c" >>,
      << "http://s.io/b", "http://s.io/c", "http://s.io/d", "http://s.io/e" >>,
      << "http://s.io/d" >>,
      << "http://s.io/e" >> }

ServedWide ==
    { [kind |-> "error", anchors |-> <<>>] }
    \cup { [kind |-> "html", anchors |-> a] : a \in WideAnchorLists }

\* the sites a run is tried against
Sites == { "small", "wide" }

\* what client.get can come to on a site
ServedBy(s) == IF s = "wide" THEN ServedWide ELSE Served

Budgets == (1..MaxBudget) \cup {10}

\* the budgets tried against a site: the second site is for runs whose
\* frontier reaches the cap of line 218, 2 * max_pages = 4
BudgetsOn(s) == IF s = "wide" THEN {2} ELSE Budgets

Concurrencies == 1..MaxConcurrency

(***************************************************************************)
(* fetch_page.                                                             *)
(***************************************************************************)
None == [none |-> TRUE]

\* PageData; the metadata fields (status code, title, description,
\* headings) do not influence the crawl and are left out
PageData(url) == [url |-> url]

\* lines 155-156 for every href and domain of the model, computed once: the
\* href, the domain, normalize_url of the href, and whether is_valid_link
\* accepts it
LinkTable ==
    { << href, dom, normalize_url(href), is_valid_link(normalize_url(href), dom) >> :
        href \in Hrefs \cup WideHrefs, dom \in { get_domain(sanitize_url(url)) : url \in SeedInputs } }

RECURSIVE ValidLinks(_, _)
\* lines 153-157: the loop over soup.find_all("a", href=True)
ValidLinks(anchors, dom) ==
    IF anchors = <<>> THEN <<>>
    ELSE LET row == CHOOSE r \in LinkTable : r[1] = Head(anchors) /\ r[2] = dom
         IN  (IF row[4] THEN <<row[3]>> ELSE <<>>) \o ValidLinks(Tail(anchors), dom)

\* fetch_page without the content-type test of line 135
fetch_page_AnyContent(served, url, dom) ==
    IF served.kind \in {"html", "other"}
    THEN [page_data |-> PageData(url), links |-> ValidLinks(served.anchors, dom)]
    ELSE [page_data |-> None, links |-> <<>>]

\* fetch_page(client, url, domain) on what client.get comes to: the pair
\* (page_data, links) it returns
fetch_page(served, url, dom) ==
    IF served.kind = "html"
    THEN [page_data |-> PageData(url), links |-> ValidLinks(served.anchors, dom)]
    ELSE [page_data |-> None, links |-> <<>>]

(***************************************************************************)
(* State of one run of the crawl command.                                  *)
(***************************************************************************)
VARIABLES
    start_url,      \* crawl: sanitize_url(url)
    max_pages,      \* --max
    concurrency,    \* --concurrency
    domain,         \* crawl_site: get_domain(start_url)
    visited,        \* crawl_site: set of URLs dispatched
    to_visit,       \* crawl_site: the pending set
    results,        \* crawl_site: list of PageData
    stats,          \* crawl_site: CrawlStats
    batch,          \* crawl_site: the batch being selected or fetched
    tasks,          \* the fetch_page coroutines given to gather, in order
    futures,        \* per task: Awaiting or the pair the coroutine returned
    responses,      \* what gather returned, while the for loop reads it
    ri,             \* position of "for page_data, links in responses"
    li,             \* position of "for link in links"
    pc,             \* where the run is
    exit_status,    \* crawl: "running", "failed" (typer.Exit(1)) or "ok"
    dispatched,     \* history: the batches handed to gather, in order
    last_served,    \* history: the URL and document of the latest request
                    \* of the batch being gathered
    discovered,     \* history: the seed and every link a fetch returned
    site,           \* the site the run is against
    norm_calls      \* the calls of normalize_url made on its own: argument
                    \* and returned value

\* the arguments of the run
args == << start_url, max_pages, concurrency, domain >>

\* the history variables
hist == << dispatched, last_served, discovered >>

\* what no step of a run changes
env == << site, norm_calls >>

vars == << env, args, visited, to_visit, results, stats, batch, tasks, futures,
           responses, ri, li, pc, exit_status, hist >>

NoRequest == [url |-> "", kind |-> "none", anchors |-> <<>>]

\* a coroutine suspended in "await client.get" (line 132)
Awaiting == [awaiting |-> TRUE]

\* CrawlStats()
CrawlStats ==
    [pages_crawled |-> 0, pages_failed |-> 0, pages_filtered |-> 0,
     total_links_found |-> 0]

\* the orders in which a set can be iterated
Orders(S) ==
    { f \in [1..Cardinality(S) -> S] :
        \A a, b \in 1..Cardinality(S) : f[a] = f[b] => a = b }

\* the elements of a list
Range(seq) == { seq[k] : k \in 1..Len(seq) }

\* crawl up to the first test of the while loop of crawl_site
Init ==
    /\ site \in Sites
    /\ norm_calls = <<>>
    /\ start_url \in { sanitize_url(url) : url \in SeedInputs }
    /\ max_pages \in BudgetsOn(site)
    /\ concurrency \in Concurrencies
    /\ domain = get_domain(start_url)
    /\ visited = {}
    /\ to_visit = {start_url}
    /\ results = <<>>
    /\ stats = CrawlStats
    /\ batch = {}
    /\ tasks = <<>>
    /\ futures = <<>>
    /\ responses = <<>>
    /\ ri = 0
    /\ li = 0
    /\ pc = "while"
    /\ exit_status = "running"
    /\ dispatched = <<>>
    /\ last_served = NoRequest
    /\ discovered = {start_url}

\* line 197 without the budget: while to_visit
WhileCond_NoBudget(pending, st, budget) ==
    pending # {}

\* line 197 stopping one page early: stats.pages_crawled < max_pages - 1
WhileCond_OneShort(pending, st, budget) ==
    pending # {} /\ st.pages_crawled < budget - 1

\* line 197: while to_visit and stats.pages_crawled < max_pages
WhileCond(pending, st, budget) ==
    pending # {} /\ st.pages_crawled < budget

\* line 199 letting one URL more into the batch: len(batch) <= concurrency
SelectCond_OneMore(pending, b, fanout) ==
    pending # {} /\ Cardinality(b) <= fanout

\* line 199: while to_visit and len(batch) < concurrency
SelectCond(pending, b, fanout) ==
    pending # {} /\ Cardinality(b) < fanout

\* line 200 reading an element without removing it
Pop_Keep(pending, url) == pending

\* line 200: to_visit.pop() leaves the set without url
Pop(pending, url) == pending \ {url}

\* line 218 without "link not in visited"
AddCond_NoVisited(link, seen, pending, budget) ==
    Cardinality(pending) + Cardinality(seen) < budget * 2

\* line 218 without the cap on the frontier
AddCond_NoCap(link, seen, pending, budget) ==
    link \notin seen

\* line 218 with the cap at max_pages in place of max_pages * 2
AddCond_HalfCap(link, seen, pending, budget) ==
    link \notin seen /\ Cardinality(pending) + Cardinality(seen) < budget

\* line 218: link not in visited and len(to_visit) + len(visited) < max_pages * 2
AddCond(link, seen, pending, budget) ==
    link \notin seen /\ Cardinality(pending) + Cardinality(seen) < budget * 2

RECURSIVE AddLinks(_, _, _, _)
\* lines 217-219 over the links of one response: to_visit after the loop
AddLinks(links, seen, pending, budget) ==
    IF links = <<>> THEN pending
    ELSE AddLinks(Tail(links), seen,
                  IF AddCond(Head(links), seen, pending, budget)
                  THEN pending \cup {Head(links)}
                  ELSE pending,
                  budget)

RECURSIVE ReduceAll_StopAtFailure(_, _, _, _)
\* lines 211-221 leaving the for loop at the first response without a page
ReduceAll_StopAtFailure(resps, seen, budget, acc) ==
    IF resps = <<>> THEN acc
    ELSE LET r == Head(resps)
         IN  IF r.page_data # None
             THEN ReduceAll_StopAtFailure(Tail(resps), seen, budget,
                    [to_visit |-> AddLinks(r.links, seen, acc.to_visit, budget),
                     results  |-> Append(acc.results, r.page_data),
                     stats    |-> [acc.stats EXCEPT
                                     !.pages_crawled = @ + 1,
                                     !.total_links_found = @ + Len(r.links)]])
             ELSE [acc EXCEPT !.stats.pages_filtered = @ + 1]

RECURSIVE ReduceAll(_, _, _, _)
\* lines 211-221 over a list of responses, from to_visit, results and stats
\* in acc: what they are after the for loop
ReduceAll(resps, seen, budget, acc) ==
    IF resps = <<>> THEN acc
    ELSE LET r == Head(resps)
         IN  ReduceAll(Tail(resps), seen, budget,
                IF r.page_data # None
                THEN [to_visit |-> AddLinks(r.links, seen, acc.to_visit, budget),
                      results  |-> Append(acc.results, r.page_data),
                      stats    |-> [acc.stats EXCEPT
                                      !.pages_crawled = @ + 1,
                                      !.total_links_found = @ + Len(r.links)]]
                ELSE [acc EXCEPT !.stats.pages_filtered = @ + 1])

\* line 306 failing on a single result as well
NoResults_OrOne(res) == Len(res) <= 1

\* line 306: if not results
NoResults(res) == Len(res) = 0

\* lines 197-198: the test of the outer loop
While ==
    /\ pc = "while"
    /\ IF WhileCond(to_visit, stats, max_pages)
       THEN /\ batch' = {}
            /\ pc' = "select"
       ELSE /\ pc' = "returned"
            /\ UNCHANGED batch
    /\ UNCHANGED << env, args, visited, to_visit, results, stats, tasks, futures,
                    responses, ri, li, exit_status, hist >>

\* lines 199-203: one turn of the inner loop
Select ==
    /\ pc = "select"
    /\ SelectCond(to_visit, batch, concurrency)
    /\ \E url \in to_visit :
         /\ to_visit' = Pop(to_visit, url)
         /\ IF url \notin visited
            THEN /\ visited' = visited \cup {url}
                 /\ batch' = batch \cup {url}
            ELSE UNCHANGED << visited, batch >>
    /\ UNCHANGED << env, args, results, stats, tasks, futures, responses, ri, li, pc,
                    exit_status, hist >>

\* lines 205-209: the inner loop is over; leave on an empty batch, else
\* create the coroutines and hand them to gather
Dispatch ==
    /\ pc = "select"
    /\ ~SelectCond(to_visit, batch, concurrency)
    /\ IF batch = {}
       THEN /\ pc' = "returned"
            /\ UNCHANGED << tasks, futures, dispatched >>
       ELSE /\ \E order \in Orders(batch) : tasks' = order
            /\ futures' = [k \in 1..Cardinality(batch) |-> Awaiting]
            /\ dispatched' = Append(dispatched, batch)
            /\ pc' = "gather"
    /\ UNCHANGED << env, args, visited, to_visit, results, stats, batch, responses,
                    ri, li, exit_status, last_served, discovered >>

\* lines 131-164: the request of one coroutine comes to an end and the
\* coroutine runs to its return
Fetch ==
    /\ pc = "gather"
    /\ \E k \in 1..Len(tasks) :
         /\ futures[k] = Awaiting
         /\ \E served \in ServedBy(site) :
              LET pair == fetch_page(served, tasks[k], domain)
              IN  /\ futures' = [futures EXCEPT ![k] = pair]
                  /\ last_served' = [url |-> tasks[k], kind |-> served.kind,
                                     anchors |-> served.anchors]
                  /\ discovered' = discovered \cup Range(pair.links)
    /\ UNCHANGED << env, args, visited, to_visit, results, stats, batch, tasks,
                    responses, ri, li, pc, exit_status, dispatched >>

\* line 209 returning as soon as one coroutine has returned, with the
\* results there are (asyncio.wait with FIRST_COMPLETED in place of gather)
Gather_FirstCompleted ==
    /\ pc = "gather"
    /\ \E k \in 1..Len(tasks) : futures[k] # Awaiting
    /\ responses' = SelectSeq(futures, LAMBDA f : f # Awaiting)
    /\ tasks' = <<>>
    /\ futures' = <<>>
    /\ last_served' = NoRequest
    /\ ri' = 1
    /\ pc' = "for_response"
    /\ UNCHANGED << env, args, visited, to_visit, results, stats, batch, li,
                    exit_status, dispatched, discovered >>

\* line 209: every coroutine has returned, gather returns their results
\* in the order of the tasks; the coroutines are over
Gather ==
    /\ pc = "gather"
    /\ \A k \in 1..Len(tasks) : futures[k] # Awaiting
    /\ responses' = futures
    /\ tasks' = <<>>
    /\ futures' = <<>>
    /\ last_served' = NoRequest
    /\ ri' = 1
    /\ pc' = "for_response"
    /\ UNCHANGED << env, args, visited, to_visit, results, stats, batch, li,
                    exit_status, dispatched, discovered >>

\* lines 211-223 counting a response without a page in pages_failed
Reduce_CountsFailed ==
    /\ pc = "for_response"
    /\ ri <= Len(responses)
    /\ IF responses[ri].page_data # None
       THEN /\ results' = Append(results, responses[ri].page_data)
            /\ stats' = [stats EXCEPT
                           !.pages_crawled = @ + 1,
                           !.total_links_found = @ + Len(responses[ri].links)]
            /\ li' = 1
            /\ pc' = "for_link"
            /\ UNCHANGED ri
       ELSE /\ stats' = [stats EXCEPT !.pages_failed = @ + 1]
            /\ ri' = ri + 1
            /\ UNCHANGED << results, li, pc >>
    /\ UNCHANGED << env, args, visited, to_visit, batch, tasks, futures, responses,
                    exit_status, hist >>

\* lines 211-215 and 220-223: the next response of the batch
Reduce ==
    /\ pc = "for_response"
    /\ ri <= Len(responses)
    /\ IF responses[ri].page_data # None
       THEN /\ results' = Append(results, responses[ri].page_data)
            /\ stats' = [stats EXCEPT
                           !.pages_crawled = @ + 1,
                           !.total_links_found = @ + Len(responses[ri].links)]
            /\ li' = 1
            /\ pc' = "for_link"
            /\ UNCHANGED ri
       ELSE /\ stats' = [stats EXCEPT !.pages_filtered = @ + 1]
            /\ ri' = ri + 1
            /\ UNCHANGED << results, li, pc >>
    /\ UNCHANGED << env, args, visited, to_visit, batch, tasks, futures, responses,
                    exit_status, hist >>

\* lines 217-219: the next link of the response
AddLink ==
    /\ pc = "for_link"
    /\ li <= Len(responses[ri].links)
    /\ LET link == responses[ri].links[li]
       IN  IF AddCond(link, visited, to_visit, max_pages)
           THEN to_visit' = to_visit \cup {link}
           ELSE UNCHANGED to_visit
    /\ li' = li + 1
    /\ UNCHANGED << env, args, visited, results, stats, batch, tasks, futures,
                    responses, ri, pc, exit_status, hist >>

\* line 217 exhausted, line 223: on to the next response
LinksDone ==
    /\ pc = "for_link"
    /\ li > Len(responses[ri].links)
    /\ ri' = ri + 1
    /\ li' = 0
    /\ pc' = "for_response"
    /\ UNCHANGED << env, args, visited, to_visit, results, stats, batch, tasks,
                    futures, responses, exit_status, hist >>

\* line 211 exhausted: back to the test of the outer loop; the responses
\* are not read again
ReduceDone ==
    /\ pc = "for_response"
    /\ ri > Len(responses)
    /\ responses' = <<>>
    /\ ri' = 0
    /\ pc' = "while"
    /\ UNCHANGED << env, args, visited, to_visit, results, stats, batch, tasks,
                    futures, li, exit_status, hist >>

\* lines 225 and 304-318: crawl_site returns; crawl exits with status 1
\* when there are no results, else displays and exports them
Exit ==
    /\ pc = "returned"
    /\ exit_status' = IF NoResults(results) THEN "failed" ELSE "ok"
    /\ pc' = "exit"
    /\ UNCHANGED << env, args, visited, to_visit, results, stats, batch, tasks,
                    futures, responses, ri, li, hist >>

Next ==
    \/ While
    \/ Select
    \/ Dispatch
    \/ Fetch
    \/ Gather
    \/ Reduce
    \/ AddLink
    \/ LinksDone
    \/ ReduceDone
    \/ Exit

Spec == Init /\ [][Next]_vars

\* the event loop runs every coroutine that can run, and every request
\* comes to an end (the client has a timeout)
FairSpec == Spec /\ WF_vars(Next)

(***************************************************************************)
(* normalize_url on its own: calls on strings that need not be URLs.       *)
(***************************************************************************)
\* the characters of the strings: a letter in both cases and the slash
UrlChars == { "A", "a", "/" }

RECURSIVE StringsOfLen(_)
StringsOfLen(n) ==
    IF n = 0 THEN { "" }
    ELSE { c \o t : c \in UrlChars, t \in StringsOfLen(n - 1) }

\* the arguments tried: every string of up to MaxUrlLen characters, and
\* two URLs that differ in case and in a trailing slash
UrlStrings ==
    UNION { StringsOfLen(n) : n \in 0..MaxUrlLen }
    \cup { "HTTP://Example.com/Foo/", "http://example.com/foo" }

\* the variables of a run of the crawl command
run_vars == << args, visited, to_visit, results, stats, batch, tasks, futures,
               responses, ri, li, pc, exit_status, hist >>

\* no run of the crawl command: only normalize_url is called
NormInit ==
    /\ norm_calls = <<>>
    /\ site = "small"
    /\ start_url = ""
    /\ max_pages = 1
    /\ concurrency = 1
    /\ domain = ""
    /\ visited = {}
    /\ to_visit = {}
    /\ results = <<>>
    /\ stats = CrawlStats
    /\ batch = {}
    /\ tasks = <<>>
    /\ futures = <<>>
    /\ responses = <<>>
    /\ ri = 0
    /\ li = 0
    /\ pc = "idle"
    /\ exit_status = "running"
    /\ dispatched = <<>>
    /\ last_served = NoRequest
    /\ discovered = {}

\* lines 89-91: a call normalize_url(u)
Normalize ==
    /\ Len(norm_calls) < 2
    /\ \E u \in UrlStrings :
         norm_calls' = Append(norm_calls, [arg |-> u, ret |-> normalize_url(u)])
    /\ UNCHANGED << site, run_vars >>

\* lines 89-91: a call of normalize_url on what the call before returned
Renormalize ==
    /\ Len(norm_calls) = 1
    /\ norm_calls' = Append(norm_calls,
                            [arg |-> norm_calls[1].ret,
                             ret |-> normalize_url(norm_calls[1].ret)])
    /\ UNCHANGED << site, run_vars >>

NormNext == Normalize \/ Renormalize

NormSpec == NormInit /\ [][NormNext]_vars

(***************************************************************************)
(* Properties of the crawl.                                                *)
(***************************************************************************)
\* every URL handed to gather so far, and those of the batch being selected
Dispatched == UNION Range(dispatched)

\* the link the for loop of line 217 has just handled
LinkDone == responses[ri].links[li - 1]

AfterLink == pc = "for_link" /\ li >= 2

\* ------------------------------------------------------------------ C1
C1_Once ==
    /\ \A a, b \in 1..Len(dispatched) :
         a # b => dispatched[a] \cap dispatched[b] = {}
    /\ pc = "select" => batch \cap Dispatched = {}
    /\ Dispatched \cap to_visit = {}

C1_NotPutBack ==
    \A url \in Dispatched \cup batch : url \notin to_visit'

\* C1: no URL is in two batches, and a URL that is in a batch (whatever its
\* fetch came to) is never put back into to_visit, also when a later page
\* links to it.
C1_NoRevisits == []C1_Once /\ [][C1_NotPutBack]_vars

\* a page of a later batch has linked to a URL dispatched before, and the
\* loop has passed over that link
C1_Witness ==
    /\ AfterLink
    /\ Len(dispatched) >= 2
    /\ LinkDone \in dispatched[1]

\* ------------------------------------------------------------------ C2
\* C2: stats.pages_crawled <= max_pages in every state.
C2_BudgetRespected == stats.pages_crawled <= max_pages

\* ------------------------------------------------------------------ C3
\* C3: once pages_crawled >= max_pages, no step selects or dispatches a
\* batch: visited and the batches stay as they are, nothing leaves
\* to_visit, and the run is never again in the selection or in gather.
C3_NoBatchOverBudget ==
    [][stats.pages_crawled >= max_pages =>
         /\ visited' = visited
         /\ to_visit \subseteq to_visit'
         /\ dispatched' = dispatched
         /\ pc' \notin {"select", "gather"}]_vars

\* the run has ended on the budget with URLs still pending
C3_Witness ==
    /\ pc = "exit"
    /\ stats.pages_crawled >= max_pages
    /\ to_visit # {}

C5_Bound ==
    Cardinality(to_visit) + Cardinality(visited) < 2 * max_pages + concurrency

C5_AddBelowCap ==
    ~(to_visit' \subseteq to_visit) =>
        Cardinality(to_visit) + Cardinality(visited) < 2 * max_pages

\* C5: |to_visit| + |visited| < 2 * max_pages + concurrency in every state,
\* and a link is added to to_visit only in a state where
\* |to_visit| + |visited| < 2 * max_pages.
C5_FrontierBound == []C5_Bound /\ [][C5_AddBelowCap]_vars

\* the cap has refused a link that was neither visited nor pending
C5_Witness ==
    /\ AfterLink
    /\ LinkDone \notin visited
    /\ LinkDone \notin to_visit

\* ------------------------------------------------------------------ C6
C6_Disjoint == visited \cap to_visit = {}

C6_Moves ==
    /\ \A url \in to_visit' \ to_visit : url \notin visited
    /\ \A url \in batch' \ batch :
         /\ url \in to_visit /\ url \notin to_visit'
         /\ url \notin visited /\ url \in visited'
    /\ visited' \ visited = batch' \ batch

\* C6: visited and to_visit are disjoint in every state; a URL enters
\* to_visit only if it is not in visited; a URL selected for a batch leaves
\* to_visit and enters visited in that same step.
C6_FrontierDisjoint == []C6_Disjoint /\ [][C6_Moves]_vars

\* a batch is in flight while other URLs are pending, after an earlier
\* batch
C6_Witness ==
    /\ pc = "gather"
    /\ to_visit # {}
    /\ Len(dispatched) >= 2

\* ------------------------------------------------------------------ C7
\* get_domain for every URL of the model, computed once
DomainTable ==
    { << url, get_domain(url) >> :
        url \in Hrefs \cup { row[3] : row \in LinkTable }
                \cup { sanitize_url(seed) : seed \in SeedInputs } }

DomainOf(url) == (CHOOSE row \in DomainTable : row[1] = url)[2]

\* the links of the pairs the coroutines have returned
ReturnedLinks ==
    UNION { Range(futures[k].links) :
              k \in { n \in 1..Len(futures) : futures[n] # Awaiting } }

\* C7: is_valid_link is false for every link of another domain, and every
\* URL in to_visit, in visited or returned by a fetch, the seed apart, has
\* the domain of the seed.
C7_DomainIsolation ==
    /\ \A row \in LinkTable : DomainOf(row[3]) # row[2] => ~row[4]
    /\ \A url \in ((to_visit \cup visited) \ {start_url}) \cup ReturnedLinks :
         DomainOf(url) = DomainOf(start_url)

\* a page of the seed's site has served an anchor to another domain next
\* to an anchor of its own, and its links have been returned
C7_Witness ==
    /\ last_served.kind = "html"
    /\ \E k \in 1..Len(last_served.anchors) :
         DomainOf(last_served.anchors[k]) # domain
    /\ ReturnedLinks # {}

\* ------------------------------------------------------------------ C8
\* C8: when a run ends with no fetch filtered and the URLs reachable from
\* the seed are no more than max_pages, then pages_crawled is their
\* number and results holds exactly their records, each once.
C8_CompleteTraversal ==
    (/\ pc = "exit"
     /\ stats.pages_filtered = 0
     /\ Cardinality(discovered) <= max_pages)
    => /\ stats.pages_crawled = Cardinality(discovered)
       /\ Len(results) = Cardinality(discovered)
       /\ { results[k].url : k \in 1..Len(results) } = discovered
       /\ visited = discovered

\* the chain of three pages, max_pages 10, concurrency 2: three batches of
\* one URL each
C8_Witness ==
    /\ pc = "exit"
    /\ max_pages = 10
    /\ concurrency = 2
    /\ stats.pages_filtered = 0
    /\ stats.pages_crawled = 3
    /\ Len(dispatched) = 3

\* ------------------------------------------------------------------ C9
\* a .jpg file and a /cart path
FilteredExamples == { "http://s.io/i.jpg", "http://s.io/cart" }

\* the seed's page has been served and all its anchors are of the filtered
\* examples or rejected by is_valid_link
SeedAllFiltered ==
    /\ last_served.url = start_url
    /\ last_served.kind = "html"
    /\ last_served.anchors # <<>>
    /\ \A k \in 1..Len(last_served.anchors) :
         \/ last_served.anchors[k] \in FilteredExamples
         \/ \E row \in LinkTable :
              row[1] = last_served.anchors[k] /\ row[2] = domain /\ ~row[4]

OnlySeedBatch == dispatched = << {start_url} >>

\* C9: a seed page whose anchors are all filtered returns no link; and
\* when the seed's page returned no link, nothing enters to_visit, there
\* is no second batch, and the run ends with pages_crawled = 1,
\* pages_filtered = 0, to_visit empty and the seed's record alone.
C9_AllFilteredSeed ==
    /\ SeedAllFiltered =>
         futures = << [page_data |-> PageData(start_url), links |-> <<>>] >>
    /\ Len(dispatched) >= 2 => stats.total_links_found >= 1
    /\ (/\ OnlySeedBatch
        /\ results # <<>>
        /\ stats.total_links_found = 0)
       => /\ to_visit = {}
          /\ results = << PageData(start_url) >>
          /\ stats.pages_crawled = 1
          /\ stats.pages_filtered = 0
          /\ pc \in {"for_link", "for_response", "while", "returned", "exit"}
          /\ pc = "exit" => exit_status = "ok"

\* the seed's page has been served with a .jpg and a /cart anchor
C9_Witness ==
    /\ SeedAllFiltered
    /\ last_served.anchors = << "http://s.io/i.jpg", "http://s.io/cart" >>
    /\ domain = "http://s.io"

\* ------------------------------------------------------------------ C10
\* C10: the command exits with a failure exactly when the run ended with
\* no result, that is with pages_crawled = 0; a seed whose fetch failed
\* gives that, and one crawled page is enough for no failure.
C10_RunFailure ==
    /\ pc # "exit" => exit_status = "running"
    /\ pc = "exit" =>
         /\ exit_status \in {"failed", "ok"}
         /\ exit_status = "failed" <=> results = <<>>
         /\ exit_status = "failed" <=> stats.pages_crawled = 0
         /\ (OnlySeedBatch /\ stats.pages_filtered = 1) =>
               /\ results = <<>>
               /\ exit_status = "failed"

\* the seed's fetch failed and the command has exited with the failure
C10_Witness ==
    /\ pc = "exit"
    /\ OnlySeedBatch
    /\ stats.pages_filtered = 1
    /\ exit_status = "failed"

\* one page was crawled, others failed, and the command has exited without
\* a failure
C10_WitnessOk ==
    /\ pc = "exit"
    /\ stats.pages_crawled = 1
    /\ stats.pages_filtered >= 2
    /\ exit_status = "ok"

\* ------------------------------------------------------------------ C11
\* what fetch_page returns for a request that failed or was not HTML
NoPage == [page_data |-> None, links |-> <<>>]

\* the latest request of the batch failed or was not HTML, and its
\* coroutine returned (None, [])
C11_Recovered ==
    last_served.kind \in {"error", "other"} =>
        \E k \in 1..Len(tasks) :
            tasks[k] = last_served.url /\ futures[k] = NoPage

\* the reduction of such a response
C11_Reduced ==
    (pc = "for_response" /\ ri <= Len(responses) /\ responses[ri] = NoPage) =>
        /\ stats' = [stats EXCEPT !.pages_filtered = @ + 1]
        /\ results' = results
        /\ to_visit' = to_visit
        /\ visited' = visited
        /\ responses' = responses
        /\ ri' = ri + 1
        /\ pc' = "for_response"

\* after the last response the run is back at the test of line 197, and
\* with URLs pending under the budget a batch is selected and dispatched
C11_GoesOn ==
    /\ (pc = "for_response" /\ ri > Len(responses)) => pc' = "while"
    /\ (pc = "while" /\ to_visit # {} /\ stats.pages_crawled < max_pages) =>
          pc' = "select"
    /\ (pc = "select" /\ pc' # "select") => pc' = "gather"

\* C11: a fetch that fails or is not HTML returns (None, []); reducing it
\* adds 1 to pages_filtered and changes nothing else of results, stats,
\* to_visit and visited; the reduction goes on with the next response of
\* the batch, and the run goes on to the next batch while URLs are pending
\* and pages_crawled < max_pages.
C11_FailureIsLocal ==
    []C11_Recovered /\ [][C11_Reduced /\ C11_GoesOn]_vars

\* in a batch of two, the first response was a failure and the second, a
\* page, has been reduced after it
C11_Witness ==
    /\ pc = "for_link"
    /\ ri = 2
    /\ responses[1] = NoPage
    /\ stats.pages_filtered >= 1

\* after a batch whose only fetch failed, the next batch is in flight
C11_WitnessNextBatch ==
    /\ pc = "gather"
    /\ Len(dispatched) = 3
    /\ stats.pages_filtered = 1
    /\ stats.pages_crawled = 1

\* ------------------------------------------------------------------ C12
\* what the reduction works on
Reduction == [to_visit |-> to_visit, results |-> results, stats |-> stats]

\* what the for loop of line 211 leaves when run from where it is
Outcome ==
    IF pc = "for_link"
    THEN ReduceAll(SubSeq(responses, ri + 1, Len(responses)), visited, max_pages,
           [Reduction EXCEPT !.to_visit =
               AddLinks(SubSeq(responses[ri].links, li, Len(responses[ri].links)),
                        visited, to_visit, max_pages)])
    ELSE IF pc = "for_response"
    THEN ReduceAll(SubSeq(responses, ri, Len(responses)), visited, max_pages,
                   Reduction)
    ELSE Reduction

\* the orders in which the responses of the batch can be processed
Perms(seq) ==
    { [k \in 1..Len(seq) |-> seq[order[k]]] : order \in Orders(1..Len(seq)) }

\* gather has returned and no response has been reduced
ReductionStarts == pc = "for_response" /\ ri = 1

\* the URLs of a list of records
Urls(records) == { records[k].url : k \in 1..Len(records) }

\* the links of the responses of the batch
BatchLinks == UNION { Range(responses[k].links) : k \in 1..Len(responses) }

\* C12 as stated: at the start of a reduction, every order of the
\* responses leaves the same to_visit, the same stats and the same set of
\* records (the reduction does not write visited).
C12_OrderIndependent ==
    ReductionStarts =>
        \A p \in Perms(responses) :
            LET a == ReduceAll(p, visited, max_pages, Reduction)
                b == ReduceAll(responses, visited, max_pages, Reduction)
            IN  /\ a.to_visit = b.to_visit
                /\ a.stats = b.stats
                /\ Urls(a.results) = Urls(b.results)

C12_UpToCap ==
    ReductionStarts =>
        \A p \in Perms(responses) :
            LET a == ReduceAll(p, visited, max_pages, Reduction)
                b == ReduceAll(responses, visited, max_pages, Reduction)
            IN  /\ a.stats = b.stats
                /\ Urls(a.results) = Urls(b.results)
                /\ Cardinality(a.to_visit) = Cardinality(b.to_visit)
                /\ Cardinality(visited \cup to_visit \cup BatchLinks) <= 2 * max_pages
                      => a.to_visit = b.to_visit

\* the steps of the reduction are the steps of the for loop of line 211:
\* they leave visited alone and do not change what the loop will leave
C12_AsReduced ==
    pc \in {"for_response", "for_link"} =>
        /\ Outcome' = Outcome
        /\ visited' = visited

\* C12 amended: every order of the responses of a batch leaves the same
\* visited, the same stats, the same set of records and the same number of
\* pending URLs; it leaves the same to_visit when the cap of line 218
\* refuses no link, that is when visited, to_visit and the links of the
\* batch are together no more than 2 * max_pages URLs.
C12_OrderIndependentUpToCap == []C12_UpToCap /\ [][C12_AsReduced]_vars

\* two pages of a batch each return a link, the cap has room for one, and
\* the two orders leave different URLs pending
C12_Witness ==
    /\ ReductionStarts
    /\ Len(responses) = 2
    /\ \E p \in Perms(responses) :
          ReduceAll(p, visited, max_pages, Reduction).to_visit
            # ReduceAll(responses, visited, max_pages, Reduction).to_visit

\* ------------------------------------------------------------------ C13
\* u and v are the same but for the case of their letters
EqualsIgnoreCase(u, v) ==
    /\ Len(u) = Len(v)
    /\ \A k \in 1..Len(u) : LowerChar(CharAt(u, k)) = LowerChar(CharAt(v, k))

\* u and v differ at most in letter case and in one trailing slash
SameButCaseAndSlash(u, v) ==
    \/ EqualsIgnoreCase(u, v)
    \/ EqualsIgnoreCase(u \o "/", v)
    \/ EqualsIgnoreCase(u, v \o "/")

\* C13: normalize_url applied to what normalize_url returned returns the
\* same string, and two strings that differ only in letter case and/or a
\* trailing slash are normalized to the same string.
C13_IdempotentNormalization ==
    \A a, b \in 1..Len(norm_calls) :
        /\ norm_calls[b].arg = norm_calls[a].ret =>
              norm_calls[b].ret = norm_calls[a].ret
        /\ SameButCaseAndSlash(norm_calls[a].arg, norm_calls[b].arg) =>
              norm_calls[a].ret = norm_calls[b].ret

\* "HTTP://Example.com/Foo/" was normalized, and then what that call
\* returned, "http://example.com/foo"
C13_Witness ==
    /\ Len(norm_calls) = 2
    /\ norm_calls[1].arg = "HTTP://Example.com/Foo/"
    /\ norm_calls[2].arg = norm_calls[1].ret
    /\ norm_calls[2].arg = "http://example.com/foo"
    /\ norm_calls[2].ret = "http://example.com/foo"

\* ------------------------------------------------------------------ C14
\* the number of coroutines whose request has not come to an end
InFlight == Cardinality({ k \in 1..Len(futures) : futures[k] = Awaiting })

C14_Sizes ==
    /\ \A n \in 1..Len(dispatched) :
         /\ Cardinality(dispatched[n]) >= 1
         /\ Cardinality(dispatched[n]) <= concurrency
    /\ Cardinality(batch) <= concurrency
    /\ Len(tasks) <= concurrency
    /\ InFlight <= concurrency
    /\ pc = "gather" =>
         /\ Range(tasks) = batch
         /\ Len(tasks) = Cardinality(batch)

C14_Drawn ==
    /\ pc = "select" =>
         \A u \in batch' \ batch : u \in to_visit /\ u \notin visited
    /\ dispatched' # dispatched =>
         /\ batch # {}
         /\ dispatched' = Append(dispatched, batch)

\* C14: every batch handed to gather has at least 1 and at most
\* concurrency URLs, each drawn from to_visit when it was not in visited,
\* one coroutine per URL, so that never more than concurrency requests are
\* in flight.
C14_BoundedFanOut == []C14_Sizes /\ [][C14_Drawn]_vars

\* a full batch of two is in flight while a URL is left pending
C14_Witness ==
    /\ pc = "gather"
    /\ concurrency = 2
    /\ InFlight = 2
    /\ to_visit # {}

\* ------------------------------------------------------------------ C15
\* the number of responses reduced so far
Reduced == stats.pages_crawled + stats.pages_filtered

C15_Phases ==
    /\ pc \in {"while", "select"} =>
         /\ tasks = <<>> /\ futures = <<>> /\ responses = <<>>
         /\ Reduced = Cardinality(Dispatched)
    /\ InFlight > 0 => pc = "gather" /\ responses = <<>>
    /\ pc \in {"for_response", "for_link"} => tasks = <<>> /\ futures = <<>>

C15_Steps ==
    /\ pc = "gather" =>
         /\ visited' = visited /\ to_visit' = to_visit
         /\ results' = results /\ stats' = stats
         /\ batch' = batch /\ dispatched' = dispatched
    /\ (pc = "gather" /\ pc' # "gather") =>
         /\ InFlight = 0
         /\ Len(responses') = Cardinality(batch)
    /\ (batch' # batch \/ dispatched' # dispatched) =>
         /\ InFlight = 0
         /\ responses = <<>>
         /\ Reduced = Cardinality(Dispatched)

\* C15: a batch is selected and dispatched only when no fetch is in flight
\* and every response of every earlier batch has been reduced; gather
\* returns only when every fetch of the batch has come to its end, with
\* one response per URL; and while the batch is in flight visited,
\* to_visit, results and stats do not change.
C15_BatchSynchronous == []C15_Phases /\ [][C15_Steps]_vars

\* a third batch is in flight after a batch of two
C15_Witness ==
    /\ pc = "gather"
    /\ Len(dispatched) = 3
    /\ Cardinality(dispatched[2]) = 2
    /\ InFlight = 1

\* ------------------------------------------------------------------ C16
\* C16 as stated: |visited| <= max_pages + concurrency - 1 in every state.
C16_DispatchBound ==
    Cardinality(visited) <= max_pages + concurrency - 1

\* C16 amended: |visited| <= max_pages + concurrency - 1 + pages_filtered
\* in every state: the URLs dispatched exceed max_pages by at most the
\* slack of one batch and the number of fetches reduced as filtered; with
\* no such fetch this is the bound as stated.
C16_DispatchBoundButFiltered ==
    Cardinality(visited) <= max_pages + concurrency - 1 + stats.pages_filtered

\* a URL was dispatched after a failed fetch, past the bound of one batch
C16_Witness ==
    /\ stats.pages_filtered >= 1
    /\ Cardinality(visited) > max_pages + concurrency - 1
    /\ pc = "exit"

\* ------------------------------------------------------------------ C17
\* crawl_site has returned with pages_crawled < max_pages
EndedUnderBudget ==
    pc \in {"returned", "exit"} /\ stats.pages_crawled < max_pages

\* C17 as stated: when a run ends with pages_crawled < max_pages, every
\* link a fetch of the run returned is in visited.
C17_NoneSkipped == EndedUnderBudget => discovered \subseteq visited

\* C17 amended: when a run ends with pages_crawled < max_pages, nothing is
\* left in to_visit; and when the seed and the links the fetches returned
\* are no more than 2 * max_pages URLs, so that the cap of line 218 has
\* refused none of them, every one of them is in visited.
C17_NoneSkippedUnderCap ==
    EndedUnderBudget =>
        /\ to_visit = {}
        /\ Cardinality(discovered) <= 2 * max_pages => discovered \subseteq visited

\* a run has ended under its budget, after fetches that failed, with every
\* link that was returned dispatched
C17_Witness ==
    /\ pc = "exit"
    /\ stats.pages_crawled < max_pages
    /\ stats.pages_filtered >= 2
    /\ Cardinality(discovered) >= 3
    /\ Cardinality(discovered) <= 2 * max_pages
    /\ discovered = visited

\* ------------------------------------------------------------------ C18
\* C18: pages_crawled is the length of results, no two records have the
\* same url and pages_failed is 0, in every state; and when the responses
\* of a batch have all been reduced, and when the run has ended,
\* pages_crawled + pages_filtered = |visited|.
C18_Accounted ==
    /\ stats.pages_crawled = Len(results)
    /\ \A a, b \in 1..Len(results) : results[a].url = results[b].url => a = b
    /\ Urls(results) \subseteq visited
    /\ stats.pages_failed = 0
    /\ pc \in {"while", "returned", "exit"} =>
          stats.pages_crawled + stats.pages_filtered = Cardinality(visited)

\* a batch of two, one page and one failure, has been reduced after the
\* seed's batch
C18_Witness ==
    /\ pc = "while"
    /\ Len(dispatched) = 2
    /\ stats.pages_crawled = 2
    /\ stats.pages_filtered = 1

\* ------------------------------------------------------------------ C19
\* C19: pages_crawled <= max_pages + concurrency - 1 in every state, and
\* pages_crawled < max_pages while a batch is selected and until its
\* fetches have all come to their end.
C19_OvershootBounded ==
    /\ stats.pages_crawled <= max_pages + concurrency - 1
    /\ pc \in {"select", "gather"} => stats.pages_crawled < max_pages

\* the last batch of two has taken pages_crawled one past max_pages
C19_Witness ==
    /\ concurrency = 2
    /\ stats.pages_crawled = max_pages + 1
    /\ pc = "exit"

\* ------------------------------------------------------------------ C20
\* s ends with a slash
EndsWithSlash(s) == s # "" /\ CharAt(s, Len(s)) = "/"

\* C20 as stated: normalize_url returns the lowercased argument without
\* its last character when that is a slash, and the lowercased argument
\* otherwise.
C20_StripsOneSlash ==
    \A c \in 1..Len(norm_calls) :
        LET low == Lower(norm_calls[c].arg)
        IN  norm_calls[c].ret =
                IF EndsWithSlash(low) THEN SubSeq(low, 1, Len(low) - 1) ELSE low

\* C20 amended: normalize_url returns the lowercased argument without all
\* of its trailing slashes: the longest prefix of it that does not end
\* with a slash.
C20_StripsAllSlashes ==
    \A c \in 1..Len(norm_calls) :
        LET low == Lower(norm_calls[c].arg)
            ret == norm_calls[c].ret
        IN  /\ Len(ret) <= Len(low)
            /\ ret = SubSeq(low, 1, Len(ret))
            /\ \A k \in (Len(ret) + 1)..Len(low) : CharAt(low, k) = "/"
            /\ ~EndsWithSlash(ret)
            /\ \A k \in 1..Len(ret) :
                  CharAt(ret, k) = LowerChar(CharAt(norm_calls[c].arg, k))

\* a string with an upper-case letter and two trailing slashes has been
\* normalized
C20_Witness ==
    /\ Len(norm_calls) >= 1
    /\ norm_calls[1].arg = "A//"
    /\ norm_calls[1].ret = "a"

=============================================================================
